---- MODULE Spec2Model ----
(***************************************************************************)
(* A model of the zkcreds proof core: the commitment tree ComTree          *)
(* (src/src/com_tree.rs), its membership circuit and Groth16 lifecycle,    *)
(* and the predicate circuit (src/src/pred.rs).                            *)
(*                                                                         *)
(* The two-to-one hash is modelled symbolically (a free constructor, so    *)
(* it is collision free); a Groth16 proof is modelled by the statement it  *)
(* was built for (circuit shape, public-input assignment, whether the      *)
(* constraint system was satisfied).  The sparse Merkle tree engine        *)
(* (crate::sparse_merkle) is not part of the sources at hand and is        *)
(* modelled from the specification; its depth follows the authentication   *)
(* path shape that the membership circuit fixes (one leaf pair plus        *)
(* height-2 inner pairs, com_tree.rs:266-281).                             *)
(***************************************************************************)
EXTENDS Integers, Sequences, FiniteSets, TLC

VARIABLES
    tree,      \* the ComTree: [height, leaves, nodes]
    h0,        \* the height the tree was constructed with
    slots,     \* the map index -> commitment that the completed calls describe
    status,    \* "running", or "panicked" once a call has aborted
    lastOp,    \* the call that aborted: [op, idx, com, stored]; "ok" while running
    snap,      \* the tree as it was before the last insert into a default slot
    proof,     \* the last membership proof returned by prove_membership
    made,      \* what that proof was built for: [com, root, height]
    ver,       \* the last verify_tree_memb call: [vkh, com, root, res]
    ops,       \* number of tree mutations made (bounded by MaxOps where stated)
    pred,      \* the last prove_pred call: [attrs, checker, rootcom, out, proof]
    link,      \* the last combined verification: [res, cm, cp, membOk, predOk]
    debug_build \* whether the build compiles debug assertions in

vars == <<tree, h0, slots, status, lastOp, snap, proof, made, ver, ops, pred, link,
          debug_build>>

-----------------------------------------------------------------------------
(* Bounds and program constants *)

\* Tree heights explored: MinHeight..MaxHeight
MaxHeight == 3
\* Tree mutations per behaviour in the proof specifications
MaxOps == 2
\* "Height MUST be at least 2": the path has height - 2 inner pairs
MinHeight == 2

Heights == MinHeight..MaxHeight

RECURSIVE Pow2(_)
Pow2(n) == IF n <= 0 THEN 1 ELSE 2 * Pow2(n - 1)

-----------------------------------------------------------------------------
(* Values: commitments, bytes, field elements, hashes *)

\* AC::Output::default(): the identity point of the commitment group
DefaultCom == <<0, 1>>
\* Attribute commitments are curve points (x, y); a point and its negative
\* share the x coordinate.
Coms == {<<3, 5>>, <<3, 6>>}
AllComs == Coms \cup {DefaultCom}

\* to_bytes!: each coordinate serialised little-endian
LEBytes(n) == <<n % 256, (n \div 256) % 256>>
ToBytes(c) == LEBytes(c[1]) \o LEBytes(c[2])

\* A field element holding the number n
Fe(n) == <<n>>
\* H::Output::default(): the zero field element
DefaultHash == Fe(0)

\* TwoToOneCRH::evaluate with the fixed public parameters: collision free
H(l, r) == <<"H", l, r>>

\* ToConstraintField for a commitment (a point): both coordinates
ComToFE_xonly(c) == <<Fe(c[1])>>
ComToFE(c) == <<Fe(c[1]), Fe(c[2])>>
\* ToConstraintField for a hash output: the field element itself
RootToFE(r) == <<r>>

-----------------------------------------------------------------------------
(* The sparse Merkle tree engine (crate::sparse_merkle) *)

\* Leaf positions a path of one leaf pair and height-2 inner pairs can address
Capacity(h) == Pow2(h - 1)

\* Value held at heap position n (root = 1, children of n are 2n and 2n+1,
\* leaf i sits at Capacity + i); leaves are raw bytes, not hashed.
RECURSIVE NodeHash(_, _, _)
NodeHash(leaves, cap, n) ==
    IF n >= cap THEN ToBytes(leaves[n - cap])
    ELSE H(NodeHash(leaves, cap, 2 * n), NodeHash(leaves, cap, 2 * n + 1))

ChildVal(nodes, leaves, cap, n) ==
    IF n >= cap THEN ToBytes(leaves[n - cap]) ELSE nodes[n]

\* Recompute the O(height) path from heap position n up to the root
RECURSIVE UpdatePath(_, _, _, _)
UpdatePath(nodes, leaves, cap, n) ==
    IF n < 1 THEN nodes
    ELSE LET hn == H(ChildVal(nodes, leaves, cap, 2 * n),
                     ChildVal(nodes, leaves, cap, 2 * n + 1))
         IN UpdatePath([nodes EXCEPT ![n] = hn], leaves, cap, n \div 2)

SMT_new(height, coms) ==
    LET cap == Capacity(height)
        leaves == [i \in 0..(cap - 1) |->
                     IF i \in DOMAIN coms THEN coms[i] ELSE DefaultCom]
    IN IF \E k \in DOMAIN coms : k >= cap
       THEN [ok |-> FALSE, err |-> "IndexOutOfRange",
             tree |-> [height |-> height, leaves |-> <<>>, nodes |-> <<>>]]
       ELSE [ok |-> TRUE, err |-> "",
             tree |-> [height |-> height, leaves |-> leaves,
                       nodes |-> [n \in 1..(cap - 1) |-> NodeHash(leaves, cap, n)]]]

SMT_empty(height) == SMT_new(height, <<>>).tree

SMT_root(t) == t.nodes[1]

SMT_insert(t, idx, com) ==
    LET cap == Capacity(t.height) IN
    IF idx >= cap
    THEN [ok |-> FALSE, err |-> "IndexOutOfRange", tree |-> t]
    ELSE LET leaves == [t.leaves EXCEPT ![idx] = com]
         IN [ok |-> TRUE, err |-> "",
             tree |-> [height |-> t.height, leaves |-> leaves,
                       nodes |-> UpdatePath(t.nodes, leaves, cap, (cap + idx) \div 2)]]

SMT_remove(t, idx) == SMT_insert(t, idx, DefaultCom)

NoPath == [leaf_hashes |-> <<>>, inner_hashes |-> <<>>]

\* The authentication path of slot idx: the raw leaf pair, then the sibling
\* pairs from the first internal level up to the children of the root.
SMT_generate_proof(t, idx, com) ==
    LET cap == Capacity(t.height)
        q == (cap + idx) \div 2
    IN IF idx >= cap
       THEN [ok |-> FALSE, err |-> "IndexOutOfRange", path |-> NoPath]
       ELSE IF t.leaves[idx] # com
       THEN [ok |-> FALSE, err |-> "Mismatch", path |-> NoPath]
       ELSE [ok |-> TRUE, err |-> "",
             path |-> [leaf_hashes |-> <<ToBytes(t.leaves[2 * q - cap]),
                                         ToBytes(t.leaves[2 * q + 1 - cap])>>,
                       inner_hashes |->
                          [k \in 1..(t.height - MinHeight) |->
                             LET a == q \div Pow2(k)
                             IN <<t.nodes[2 * a], t.nodes[2 * a + 1]>>]]]

-----------------------------------------------------------------------------
(* ComTree: the wrappers of com_tree.rs; a failed engine call is a panic *)

ComTree_root(t) == SMT_root(t)

ComTree_empty(tree_height) == SMT_empty(tree_height)

ComTree_new(tree_height, coms) ==
    LET r == SMT_new(tree_height, coms)
    IN [panic |-> ~r.ok, tree |-> r.tree]

ComTree_insert_unchecked(t, idx, com) ==
    [panic |-> FALSE, tree |-> SMT_insert(t, idx, com).tree]
ComTree_insert(t, idx, com) ==
    LET r == SMT_insert(t, idx, com)
    IN [panic |-> ~r.ok, tree |-> r.tree]

ComTree_remove_noop(t, idx) ==
    [panic |-> ~SMT_remove(t, idx).ok, tree |-> t]
ComTree_remove(t, idx) ==
    LET r == SMT_remove(t, idx)
    IN [panic |-> ~r.ok, tree |-> r.tree]

-----------------------------------------------------------------------------
(* The membership circuit: TreeMembershipProver and its constraints *)

\* SparseMerkleTreePathVar::check_membership: the leaf pair holds the leaf,
\* every level's hash sits in the next pair, the last hash is the root.
RECURSIVE ChainOk(_, _, _, _)
ChainOk(cur, inner, k, root) ==
    IF k > Len(inner) THEN cur = root
    ELSE /\ cur \in {inner[k][1], inner[k][2]}
         /\ ChainOk(H(inner[k][1], inner[k][2]), inner, k + 1, root)

check_membership(path, root, com) ==
    /\ ToBytes(com) \in {path.leaf_hashes[1], path.leaf_hashes[2]}
    /\ ChainOk(H(path.leaf_hashes[1], path.leaf_hashes[2]), path.inner_hashes, 1, root)

\* The placeholder path of setup mode: default leaves, height - 2 default pairs
DummyPath(height) ==
    [leaf_hashes |-> <<ToBytes(DefaultCom), ToBytes(DefaultCom)>>,
     inner_hashes |-> [k \in 1..(height - MinHeight) |-> <<DefaultHash, DefaultHash>>]]

\* The order in which the membership circuit allocates its variables
TreeMembAllocOrder == <<"input:attrs_com", "input:root", "constant:crh_param", "witness:auth_path">>

\* generate_constraints of the membership circuit: the public-input
\* assignment in declaration order, the circuit shape, and whether the
\* assignment satisfies the constraints.
TreeMembershipProver_generate_constraints(prover) ==
    LET auth_path == IF prover.has_path THEN prover.auth_path
                     ELSE DummyPath(prover.height)
    IN [panic  |-> (~prover.has_path /\ prover.height < MinHeight),
        err    |-> FALSE,
        inputs |-> ComToFE(prover.attrs_com) \o RootToFE(prover.root),
        shape  |-> [circuit |-> "tree_memb", height |-> prover.height,
                    levels |-> Len(auth_path.inner_hashes)],
        sat    |-> check_membership(auth_path, prover.root, prover.attrs_com)]

-----------------------------------------------------------------------------
(* Groth16 (ark_groth16), by its contract *)

NoShape == [circuit |-> "none", height |-> 0, levels |-> 0]
NoProof == [shape |-> NoShape, inputs |-> <<>>, sat |-> FALSE]

\* generate_random_parameters: a panic of the circuit's synthesis propagates,
\* a synthesis error is returned; otherwise the key fixes the circuit shape
\* and the number of public inputs
Groth16_generate_random_parameters(cs) ==
    IF cs.panic THEN [out |-> "panic", shape |-> NoShape, ninputs |-> 0]
    ELSE IF cs.err THEN [out |-> "err", shape |-> NoShape, ninputs |-> 0]
    ELSE [out |-> "ok", shape |-> cs.shape, ninputs |-> Len(cs.inputs)]

\* create_random_proof: a synthesis error is returned; an unsatisfied
\* constraint system trips the prover's debug assertion when assertions are
\* compiled in, and otherwise yields a proof that cannot verify.
Groth16_create_random_proof(cs, pk, debug_assertions) ==
    IF cs.panic THEN [out |-> "panic", proof |-> NoProof]
    ELSE IF cs.err THEN [out |-> "err", proof |-> NoProof]
    ELSE IF ~cs.sat /\ debug_assertions THEN [out |-> "panic", proof |-> NoProof]
    ELSE [out |-> "ok",
          proof |-> [shape |-> cs.shape, inputs |-> cs.inputs,
                     sat |-> cs.sat /\ cs.shape = pk.shape]]

\* verify_proof: Err on a public-input count that does not fit the key,
\* otherwise the boolean verdict
Groth16_verify_proof(pvk, pf, inputs) ==
    IF Len(inputs) # pvk.ninputs THEN "err"
    ELSE IF pf.sat /\ pf.shape = pvk.shape /\ pf.inputs = inputs THEN "true"
    ELSE "false"

-----------------------------------------------------------------------------
(* Membership key generation, proving and verification (com_tree.rs) *)

gen_tree_memb_crs(height) ==
    Groth16_generate_random_parameters(
        TreeMembershipProver_generate_constraints(
            [height |-> height, attrs_com |-> DefaultCom, root |-> DefaultHash,
             has_path |-> FALSE, auth_path |-> NoPath]))

prove_membership_stored(t, pk, idx, attrs_com, debug_assertions) ==
    LET i == IF idx >= Capacity(t.height) THEN 0 ELSE idx
        gp == SMT_generate_proof(t, i, t.leaves[i])
        prover == [height |-> t.height, attrs_com |-> attrs_com, root |-> SMT_root(t),
                   has_path |-> TRUE, auth_path |-> gp.path]
        r == Groth16_create_random_proof(
                 TreeMembershipProver_generate_constraints(prover), pk, debug_assertions)
    IN [out |-> r.out, gen |-> "", proof |-> r.proof]
prove_membership(t, pk, idx, attrs_com, debug_assertions) ==
    LET root == SMT_root(t)
        gp == SMT_generate_proof(t, idx, attrs_com)
        prover == [height |-> t.height, attrs_com |-> attrs_com, root |-> root,
                   has_path |-> TRUE, auth_path |-> gp.path]
        r == Groth16_create_random_proof(
                 TreeMembershipProver_generate_constraints(prover), pk, debug_assertions)
    IN IF ~gp.ok THEN [out |-> "panic", gen |-> gp.err, proof |-> NoProof]
       ELSE [out |-> r.out, gen |-> "", proof |-> r.proof]

verify_tree_memb_swapped(vk, pf, attrs_com, merkle_root) ==
    Groth16_verify_proof(vk, pf, RootToFE(merkle_root) \o ComToFE(attrs_com))
verify_tree_memb_anykey(vk, pf, attrs_com, merkle_root) ==
    Groth16_verify_proof([vk EXCEPT !.shape = pf.shape], pf,
                         ComToFE(attrs_com) \o RootToFE(merkle_root))
verify_tree_memb(vk, pf, attrs_com, merkle_root) ==
    LET attr_com_input == ComToFE(attrs_com)
        root_input == RootToFE(merkle_root)
        all_inputs == attr_com_input \o root_input
    IN Groth16_verify_proof(vk, pf, all_inputs)

-----------------------------------------------------------------------------
(* Attributes, the predicate interface and the predicate circuit (pred.rs) *)

\* Attribute records; the last one is A::default()
AttrsSet == {[name |-> "Andrew", birth_year |-> 1992],
             [name |-> "Andrew", birth_year |-> 2010],
             [name |-> "", birth_year |-> 0]}

\* Attrs::commit: a binding commitment to the record
Commit(a) ==
    IF a.birth_year = 1992 THEN <<3, 5>>
    ELSE IF a.birth_year = 2010 THEN <<3, 6>>
    ELSE <<7, 2>>

DefaultAttrs == [name |-> "", birth_year |-> 0]

\* MC::Output: commitments to a Merkle root; the first is MC::Output::default()
RootComs == {<<0, 1>>, <<4, 9>>}

\* Predicate checkers: "birth_year <= threshold"; pred returns a Result, and
\* the second checker's pred returns Err
Checkers == {[threshold |-> 2001, fails |-> FALSE],
             [threshold |-> 2001, fails |-> TRUE]}

\* Whether checker.pred returns Err(SynthesisError)
PredicateChecker_pred_err(checker) == checker.fails

PredicateChecker_pred(checker, attrs) == attrs.birth_year <= checker.threshold

PredicateChecker_public_inputs(checker) == <<Fe(checker.threshold)>>

\* The order in which the predicate circuit allocates its variables
PredAllocOrder == <<"input:attrs_com", "input:root_com", "witness:attrs", "predicate">>

\* generate_constraints of the predicate circuit: attrs_com is assigned the
\* commitment of the witnessed attributes, root_com is assigned and left
\* unconstrained, the predicate's boolean is enforced true.
PredicateProver_generate_constraints_rootbound(prover) ==
    LET attrs_com == Commit(prover.attrs)
        success == PredicateChecker_pred(prover.checker, prover.attrs)
    IN [panic  |-> FALSE,
        err    |-> PredicateChecker_pred_err(prover.checker),
        inputs |-> ComToFE(attrs_com) \o ComToFE(prover.merkle_root_com)
                     \o PredicateChecker_public_inputs(prover.checker),
        shape  |-> [circuit |-> "pred", height |-> 0, levels |-> 0],
        sat    |-> success /\ prover.merkle_root_com = <<0, 1>>]
PredicateProver_generate_constraints(prover) ==
    LET attrs_com == Commit(prover.attrs)
        com_consistent == (attrs_com = Commit(prover.attrs))
        success == PredicateChecker_pred(prover.checker, prover.attrs)
    IN [panic  |-> FALSE,
        err    |-> PredicateChecker_pred_err(prover.checker),
        inputs |-> ComToFE(attrs_com) \o ComToFE(prover.merkle_root_com)
                     \o PredicateChecker_public_inputs(prover.checker),
        shape  |-> [circuit |-> "pred", height |-> 0, levels |-> 0],
        sat    |-> com_consistent /\ success]

gen_pred_crs(checker) ==
    Groth16_generate_random_parameters(
        PredicateProver_generate_constraints(
            [checker |-> checker, attrs |-> DefaultAttrs, merkle_root_com |-> <<0, 1>>]))

prove_pred(pk, checker, attrs, merkle_root_com, debug_assertions) ==
    LET prover == [checker |-> checker, attrs |-> attrs,
                   merkle_root_com |-> merkle_root_com]
    IN Groth16_create_random_proof(
           PredicateProver_generate_constraints(prover), pk, debug_assertions)

\* Verification of a predicate proof against its full public-input vector
verify_pred(vk, pf, attrs_com, merkle_root_com, checker) ==
    Groth16_verify_proof(vk, pf,
        ComToFE(attrs_com) \o ComToFE(merkle_root_com)
          \o PredicateChecker_public_inputs(checker))

\* The proof binding discipline: both proofs verify and the two attrs_com
\* field-element representations are identical
link_verify(membOk, predOk, memb_com, pred_com) ==
    membOk /\ predOk /\ ComToFE(memb_com) = ComToFE(pred_com)

-----------------------------------------------------------------------------
(* State machine *)

NoOp   == [op |-> "ok", idx |-> 0, com |-> DefaultCom, stored |-> <<>>]
NoSnap == [phase |-> "none", idx |-> 0, root |-> DefaultHash, leaves |-> <<>>]
NoMade == [out |-> "none", gen |-> "", com |-> DefaultCom,
           root |-> DefaultHash, height |-> 0]
NoVer  == [vkh |-> 0, com |-> DefaultCom, root |-> DefaultHash, res |-> "none"]
NoPred == [out |-> "none", attrs |-> DefaultAttrs,
           checker |-> [threshold |-> 0, fails |-> FALSE],
           rootcom |-> <<0, 1>>, proof |-> NoProof]
NoLink == [res |-> "none", cm |-> DefaultCom, cp |-> DefaultCom,
           membOk |-> FALSE, predOk |-> FALSE]
NoTree == [height |-> 0, leaves |-> <<>>, nodes |-> <<>>]

\* Indices offered to the calls: every slot below 2^height, and 2^height itself
IndexSpace(h) == 0..Pow2(h)

\* Maps offered to new: at most MaxBulk entries, each index -> commitment
MaxBulk == 2
RECURSIVE KeySets(_, _)
KeySets(keys, n) ==
    IF n <= 0 THEN {{}}
    ELSE LET P == KeySets(keys, n - 1) IN P \cup {S \cup {k} : S \in P, k \in keys}
MapsOn(keysets) == UNION {[K -> Coms] : K \in keysets}
BulkMaps(h) == MapsOn(KeySets(IndexSpace(h), MaxBulk))

NonDefaultMap(f) == [i \in {j \in DOMAIN f : f[j] # DefaultCom} |-> f[i]]

StoredAt(t, idx) == IF idx \in DOMAIN t.leaves THEN t.leaves[idx] ELSE <<>>

InitTree(h) ==
    /\ tree = ComTree_empty(h)
    /\ h0 = h
    /\ slots = [i \in 0..(Capacity(h) - 1) |-> DefaultCom]
    /\ status = "running"
    /\ lastOp = NoOp
    /\ snap = NoSnap
    /\ proof = NoProof
    /\ made = NoMade
    /\ ver = NoVer
    /\ ops = 0
    /\ pred = NoPred
    /\ link = NoLink

Init == \E h \in Heights : InitTree(h) /\ debug_build \in BOOLEAN

\* The tree calls do not depend on the build
InitRelease == \E h \in Heights : InitTree(h) /\ debug_build = FALSE

\* Trees an issuer has built with new: at most MaxIssued commitments issued
MaxIssued == 1
IssuedMaps(h) == MapsOn(KeySets(0..(Capacity(h) - 1), MaxIssued))

InitLink ==
    \E h \in Heights : \E coms \in IssuedMaps(h) :
       /\ tree = ComTree_new(h, coms).tree
       /\ h0 = h
       /\ slots = [i \in 0..(Capacity(h) - 1) |->
                     IF i \in DOMAIN coms THEN coms[i] ELSE DefaultCom]
       /\ status = "running"
       /\ lastOp = NoOp
       /\ snap = NoSnap
       /\ proof = NoProof
       /\ made = NoMade
       /\ ver = NoVer
       /\ ops = 0
       /\ pred = NoPred
       /\ link = NoLink
       /\ debug_build \in BOOLEAN

\* A verification call has returned a verdict that is still being looked at
Verifying == ver # NoVer \/ link # NoLink

\* A call aborts: the process and its tree are gone; what remains is the
\* record of the call that aborted.
Panic(op, idx, com, stored, gen, p) ==
    /\ status' = "panicked"
    /\ lastOp' = [op |-> op, idx |-> idx, com |-> com, stored |-> stored]
    /\ made' = [NoMade EXCEPT !.out = IF op = "prove" THEN "panic" ELSE "none",
                              !.gen = gen]
    /\ pred' = p
    /\ tree' = NoTree
    /\ slots' = <<>>
    /\ snap' = NoSnap
    /\ proof' = NoProof
    /\ ver' = NoVer
    /\ ops' = 0
    /\ link' = NoLink
    /\ UNCHANGED <<h0, debug_build>>

\* Nothing has been done with the tree that empty constructed
FreshTree ==
    /\ status = "running"
    /\ ~Verifying
    /\ snap = NoSnap /\ ops = 0 /\ made = NoMade /\ pred = NoPred
    /\ tree = ComTree_empty(h0)

\* ComTree::new replacing the freshly constructed tree; when counted, every
\* entry of the map counts as one write
New(coms, counted) ==
    /\ FreshTree
    /\ counted => Cardinality(DOMAIN coms) <= MaxOps
    /\ LET r == ComTree_new(h0, coms) IN
       IF r.panic
       THEN Panic("new", 0, DefaultCom, <<>>, "", NoPred)
       ELSE /\ tree' = r.tree
            /\ slots' = [i \in 0..(Capacity(h0) - 1) |->
                           IF i \in DOMAIN coms THEN coms[i] ELSE DefaultCom]
            /\ snap' = IF counted THEN NoSnap ELSE [NoSnap EXCEPT !.phase = "new"]
            /\ ops' = IF counted THEN Cardinality(DOMAIN coms) ELSE ops
            /\ ver' = NoVer
            /\ link' = NoLink
            /\ UNCHANGED <<h0, status, lastOp, proof, made, pred, debug_build>>

\* ComTree::insert
Insert(idx, com, counted) ==
    /\ status = "running"
    /\ ~Verifying
    /\ counted => ops < MaxOps
    /\ LET r == ComTree_insert(tree, idx, com) IN
       IF r.panic
       THEN Panic("insert", idx, com, StoredAt(tree, idx), "", NoPred)
       ELSE /\ tree' = r.tree
            /\ slots' = [i \in DOMAIN slots |-> IF i = idx THEN com ELSE slots[i]]
            /\ snap' = IF ~counted /\ StoredAt(tree, idx) = DefaultCom
                       THEN [phase |-> "inserted", idx |-> idx,
                             root |-> ComTree_root(tree), leaves |-> tree.leaves]
                       ELSE NoSnap
            /\ ops' = IF counted THEN ops + 1 ELSE ops
            /\ ver' = NoVer
            /\ link' = NoLink
            /\ UNCHANGED <<h0, status, lastOp, proof, made, pred, debug_build>>

\* ComTree::remove
Remove(idx, counted) ==
    /\ status = "running"
    /\ ~Verifying
    /\ counted => ops < MaxOps
    /\ LET r == ComTree_remove(tree, idx) IN
       IF r.panic
       THEN Panic("remove", idx, DefaultCom, StoredAt(tree, idx), "", NoPred)
       ELSE /\ tree' = r.tree
            /\ slots' = [i \in DOMAIN slots |->
                           IF i = idx THEN DefaultCom ELSE slots[i]]
            /\ snap' = IF snap.phase = "inserted" /\ snap.idx = idx
                       THEN [snap EXCEPT !.phase = "removed"] ELSE NoSnap
            /\ ops' = IF counted THEN ops + 1 ELSE ops
            /\ ver' = NoVer
            /\ link' = NoLink
            /\ UNCHANGED <<h0, status, lastOp, proof, made, pred, debug_build>>

\* Heights a key generation may be asked for: one below the least height too
KeyHeights == (MinHeight - 1)..MaxHeight

\* The one-time setups: the outcome of gen_tree_memb_crs for every height and
\* of gen_pred_crs for every checker
TreeKeys == [h \in KeyHeights |-> gen_tree_memb_crs(h)]
PredKeys == [c \in Checkers |-> gen_pred_crs(c)]

\* ComTree::prove_membership with the proving key generated for the tree's height
ProveMembership(idx, com) ==
    /\ status = "running"
    /\ ~Verifying
    /\ LET pk == TreeKeys[tree.height]
           r == prove_membership(tree, pk, idx, com, debug_build) IN
       IF pk.out # "ok"
       THEN Panic("gen_tree_memb_crs", tree.height, DefaultCom, <<>>, "", NoPred)
       ELSE IF r.out = "panic"
       THEN Panic("prove", idx, com, StoredAt(tree, idx), r.gen, NoPred)
       ELSE /\ made' = [out |-> r.out, gen |-> r.gen, com |-> com,
                        root |-> ComTree_root(tree), height |-> tree.height]
            /\ proof' = r.proof
            /\ snap' = NoSnap
            /\ ver' = NoVer
            /\ link' = NoLink
            /\ UNCHANGED <<tree, h0, slots, status, lastOp, ops, pred, debug_build>>

\* Roots a verifier may be handed
RootCandidates == {ComTree_root(tree), made.root, DefaultHash}

\* gen_tree_memb_crs(..).unwrap() for height vkh, then verify_tree_memb with
\* the verifying key prepared from it
VerifyTreeMemb(vkh, com, root) ==
    /\ status = "running"
    /\ ~Verifying
    /\ made.out = "ok"
    /\ LET vk == TreeKeys[vkh] IN
       IF vk.out # "ok"
       THEN Panic("gen_tree_memb_crs", vkh, DefaultCom, <<>>, "", NoPred)
       ELSE /\ ver' = [vkh |-> vkh, com |-> com, root |-> root,
                       res |-> verify_tree_memb(vk, proof, com, root)]
            /\ snap' = NoSnap
            /\ link' = NoLink
            /\ UNCHANGED <<tree, h0, slots, status, lastOp, proof, made, ops, pred,
                           debug_build>>

\* The proving key prove_pred is handed: the one gen_pred_crs returned for
\* the checker, or, when that setup returned Err, the key of a checker of the
\* same type whose setup returned one
PredKeyFor(checker) ==
    IF PredKeys[checker].out = "ok" THEN PredKeys[checker]
    ELSE PredKeys[CHOOSE k \in Checkers :
                     PredKeys[k].out = "ok" /\ k.threshold = checker.threshold]

\* gen_pred_crs for the checker, whose Err is returned and aborts nothing,
\* then prove_pred
ProvePred(attrs, checker, rootcom) ==
    /\ status = "running"
    /\ ~Verifying
    /\ LET pk == PredKeyFor(checker)
           r == prove_pred(pk, checker, attrs, rootcom, debug_build)
           p == [out |-> r.out, attrs |-> attrs, checker |-> checker,
                 rootcom |-> rootcom, proof |-> r.proof]
       IN
       IF r.out = "panic"
       THEN Panic("prove_pred", 0, Commit(attrs), <<>>, "", p)
       ELSE /\ pred' = p
            /\ snap' = NoSnap
            /\ ver' = NoVer
            /\ link' = NoLink
            /\ UNCHANGED <<tree, h0, slots, status, lastOp, proof, made, ops, debug_build>>

\* The verifier of the combined statement, handed the two proofs and the
\* commitment each is claimed to be about
LinkVerify(cm, cp) ==
    /\ status = "running"
    /\ ~Verifying
    /\ made.out = "ok"
    /\ pred.out = "ok"
    /\ LET membRes == verify_tree_memb(TreeKeys[h0], proof, cm, ComTree_root(tree))
           predRes == verify_pred(PredKeyFor(pred.checker), pred.proof, cp,
                                  pred.rootcom, pred.checker)
       IN link' = [res |-> IF link_verify(membRes = "true", predRes = "true", cm, cp)
                           THEN "accept" ELSE "reject",
                   cm |-> cm, cp |-> cp,
                   membOk |-> (membRes = "true"), predOk |-> (predRes = "true")]
    /\ snap' = NoSnap
    /\ ver' = NoVer
    /\ UNCHANGED <<tree, h0, slots, status, lastOp, proof, made, ops, pred, debug_build>>

\* The verifier's caller takes the verdict and goes on
Return ==
    /\ status = "running"
    /\ Verifying
    /\ ver' = NoVer
    /\ link' = NoLink
    /\ UNCHANGED <<tree, h0, slots, status, lastOp, snap, proof, made, ops, pred,
                   debug_build>>

\* Commitments a verifier may be told a predicate proof is about
LinkComs == AllComs \cup {Commit(a) : a \in AttrsSet}

\* The tree alone
NextTree ==
    \/ /\ FreshTree
       /\ \E coms \in BulkMaps(h0) : New(coms, FALSE)
    \/ \E idx \in IndexSpace(h0), com \in AllComs : Insert(idx, com, FALSE)
    \/ \E idx \in IndexSpace(h0) : Remove(idx, FALSE)

SpecTree == InitRelease /\ [][NextTree]_vars

\* The tree with membership proving
NextProve ==
    \/ /\ FreshTree
       /\ \E coms \in BulkMaps(h0) : New(coms, TRUE)
    \/ \E idx \in IndexSpace(h0), com \in AllComs : Insert(idx, com, TRUE)
    \/ \E idx \in IndexSpace(h0) : Remove(idx, TRUE)
    \/ \E idx \in IndexSpace(h0), com \in AllComs : ProveMembership(idx, com)

SpecProve == Init /\ [][NextProve]_vars

\* The tree with membership proving and verification
Next ==
    \/ /\ FreshTree
       /\ \E coms \in BulkMaps(h0) : New(coms, TRUE)
    \/ \E idx \in IndexSpace(h0), com \in AllComs : Insert(idx, com, TRUE)
    \/ \E idx \in IndexSpace(h0) : Remove(idx, TRUE)
    \/ \E idx \in IndexSpace(h0), com \in AllComs : ProveMembership(idx, com)
    \/ /\ status = "running"
       /\ \E vkh \in KeyHeights, com \in AllComs, root \in RootCandidates :
             VerifyTreeMemb(vkh, com, root)
    \/ Return

Spec == Init /\ [][Next]_vars

\* Both proof systems and the combined verifier
NextLink ==
    \/ \E idx \in IndexSpace(h0), com \in AllComs : ProveMembership(idx, com)
    \/ \E attrs \in AttrsSet, checker \in Checkers, rootcom \in RootComs :
          ProvePred(attrs, checker, rootcom)
    \/ \E cm \in AllComs, cp \in LinkComs : LinkVerify(cm, cp)
    \/ Return

SpecLink == InitLink /\ [][NextLink]_vars

-----------------------------------------------------------------------------
(* Properties *)

\* Indices at or beyond 2^height among those offered, and the maps offered to
\* new that have such a key
OutOfRange(h) == {i \in IndexSpace(h) : i >= Pow2(h)}
OutOfRangeMaps(h) ==
    MapsOn({K \cup {k} : K \in KeySets(IndexSpace(h), MaxBulk - 1), k \in OutOfRange(h)})

Aborted == status = "panicked" /\ proof = NoProof /\ tree = NoTree

\* C1 (as claimed): for every index i < 2^height, insert(i, c) is carried out,
\* and proving membership of a commitment held at its slot succeeds with a
\* proof that verifies against (c, root()).
C1_EveryIndexBelowTwoPowHeight ==
    /\ (status = "panicked" /\ lastOp.op = "insert") => lastOp.idx >= Pow2(h0)
    /\ (status = "panicked" /\ lastOp.op = "prove") => lastOp.stored # lastOp.com
    /\ (made.out # "none" /\ status = "running" /\ made.root = ComTree_root(tree)) =>
          /\ made.out = "ok"
          /\ verify_tree_memb(gen_tree_memb_crs(h0), proof, made.com,
                              ComTree_root(tree)) = "true"

\* C2: proving membership of (i, c') while slot i holds another value fails:
\* generate_proof reports the mismatch, the call aborts, no proof is produced.
C2_MismatchFails ==
    [][\A idx \in 0..(Capacity(h0) - 1), com \in AllComs :
          (/\ status = "running"
           /\ StoredAt(tree, idx) # com
           /\ ProveMembership(idx, com))
          => (/\ status' = "panicked"
              /\ made'.gen = "Mismatch"
              /\ made'.out = "panic"
              /\ proof' = NoProof)]_vars

C2_Witness ==
    /\ status = "panicked"
    /\ lastOp.op = "prove"
    /\ made.gen = "Mismatch"
    /\ lastOp.stored \in Coms
    /\ lastOp.com \in AllComs \ {lastOp.stored}
    /\ proof = NoProof

\* C3: insert, remove and prove_membership given an index >= 2^height abort,
\* and so does new given a map with such a key; none yields a tree or a proof.
C3_OutOfRangeAborts ==
    [][/\ \A idx \in OutOfRange(h0), com \in AllComs :
             (Insert(idx, com, TRUE) \/ Remove(idx, TRUE) \/ ProveMembership(idx, com))
             => Aborted'
       /\ Aborted' \/ \A coms \in (IF FreshTree THEN OutOfRangeMaps(h0) ELSE {}) :
                          ~New(coms, TRUE)]_vars

C3_Witness ==
    /\ Aborted
    /\ lastOp.op \in {"insert", "remove", "prove"}
    /\ lastOp.idx >= Pow2(h0)

\* C4: insert(i, c) into a default slot followed by remove(i) gives back the
\* root the tree had before the insert, with every slot as it was.
C4_InsertRemoveRestoresRoot ==
    snap.phase = "removed" =>
        /\ status = "running"
        /\ ComTree_root(tree) = snap.root
        /\ tree.leaves = snap.leaves

C4_Witness ==
    /\ snap.phase = "removed"
    /\ \E i \in DOMAIN tree.leaves : tree.leaves[i] \in Coms
    /\ ComTree_root(tree) = snap.root

\* C5: at most one pair (attrs_com, root) makes a proof verify: a verification
\* with either value replaced returns false.
C5_OtherInputsRejected ==
    \A c \in AllComs, r \in (IF status = "running" THEN RootCandidates ELSE {}) :
        (/\ ver.res # "none"
         /\ verify_tree_memb(gen_tree_memb_crs(ver.vkh), proof, c, r) = "true"
         /\ (ver.com # c \/ ver.root # r))
        => ver.res = "false"

\* A proof built before a mutation, verified against the changed root
C5_Witness ==
    /\ ver.res = "false"
    /\ ver.vkh = made.height
    /\ ver.com = made.com
    /\ ver.root = ComTree_root(tree)
    /\ made.root # ComTree_root(tree)
    /\ verify_tree_memb(gen_tree_memb_crs(ver.vkh), proof, made.com, made.root) = "true"

\* C6: prove_pred on attributes that fail the predicate returns a
\* proving-time failure and never a proof.
C6_PredFalseNeverReturnsProof ==
    (pred.out # "none" /\ ~PredicateChecker_pred(pred.checker, pred.attrs))
    => (pred.out \in {"err", "panic"} /\ pred.proof = NoProof)

\* C7: the combined statement is accepted only if the membership proof
\* verifies, the predicate proof verifies and the two attrs_com field
\* representations are identical; then both proofs are about one commitment.
C7_AcceptOnlyBoundProofs ==
    link.res = "accept" =>
        /\ link.membOk
        /\ link.predOk
        /\ ComToFE(link.cm) = ComToFE(link.cp)
        /\ link.cm = link.cp
        /\ made.com = Commit(pred.attrs)
        /\ PredicateChecker_pred(pred.checker, pred.attrs)

\* Two proofs, each valid, about different commitments: rejected
C7_Witness ==
    /\ link.res = "reject"
    /\ link.membOk
    /\ link.predOk
    /\ link.cm = made.com
    /\ link.cp = Commit(pred.attrs)
    /\ made.com # Commit(pred.attrs)

\* C8: a proof built for one height verified with the key of another height
\* yields false; verification never yields an error.
C8_KeyHeightMismatchIsFalse ==
    /\ ver.res \in {"none", "true", "false"}
    /\ (ver.res # "none" /\ ver.vkh # made.height) => ver.res = "false"

C8_Witness ==
    /\ ver.res = "false"
    /\ ver.vkh # made.height
    /\ ver.com = made.com
    /\ ver.root = made.root

\* C9: the root depends on the slot contents only: it equals the root of
\* new(params, h, m) for the map m of non-default slots that the completed
\* calls describe; the height stays the one the tree was built with.
C9_RootIsFunctionOfContents ==
    status = "running" =>
        /\ tree.height = h0
        /\ ComTree_root(tree) = ComTree_root(ComTree_new(h0, NonDefaultMap(slots)).tree)

C9_Witness ==
    /\ snap.phase = "removed"
    /\ Cardinality({i \in DOMAIN slots : slots[i] \in Coms}) >= 2
    /\ ComTree_root(tree) = ComTree_root(ComTree_new(h0, NonDefaultMap(slots)).tree)

\* C10: both circuits assign their public inputs attrs_com first, then root
\* (or the root commitment), ahead of every other allocation; the membership
\* verifier assembles its inputs in that order, and assembling them in the
\* other order makes a valid proof fail to verify.
C10_PublicInputOrder ==
    /\ SubSeq(TreeMembAllocOrder, 1, 2) = <<"input:attrs_com", "input:root">>
    /\ SubSeq(PredAllocOrder, 1, 2) = <<"input:attrs_com", "input:root_com">>
    /\ made.out = "ok" =>
          /\ proof.inputs = ComToFE(made.com) \o RootToFE(made.root)
          /\ verify_tree_memb(gen_tree_memb_crs(made.height), proof,
                              made.com, made.root) = "true"
          /\ Groth16_verify_proof(gen_tree_memb_crs(made.height), proof,
                                  RootToFE(made.root) \o ComToFE(made.com)) = "false"
    /\ pred.out = "ok" =>
          SubSeq(pred.proof.inputs, 1, Len(ComToFE(DefaultCom)) + Len(ComToFE(pred.rootcom)))
             = ComToFE(Commit(pred.attrs)) \o ComToFE(pred.rootcom)

C10_Witness ==
    /\ made.out = "ok"
    /\ pred.out = "ok"
    /\ made.com \in Coms
    /\ link.res = "accept"

\* C11: the predicate circuit enforces only that the commitment of the
\* witnessed attributes equals attrs_com and that the predicate is true; the
\* root commitment is a public input that nothing constrains, so for a fixed
\* attribute record satisfiability is the same for every root commitment.
C11_RootComUnconstrained ==
    pred.out # "none" =>
        /\ \A rc \in RootComs :
              LET cs == PredicateProver_generate_constraints(
                            [checker |-> pred.checker, attrs |-> pred.attrs,
                             merkle_root_com |-> rc])
              IN /\ cs.sat = PredicateChecker_pred(pred.checker, pred.attrs)
                 /\ cs.err = PredicateChecker_pred_err(pred.checker)
                 /\ SubSeq(cs.inputs, Len(ComToFE(DefaultCom)) + 1,
                           Len(ComToFE(DefaultCom)) + Len(ComToFE(rc))) = ComToFE(rc)
        /\ pred.out = "ok" =>
              pred.proof.sat = PredicateChecker_pred(pred.checker, pred.attrs)
        /\ pred.out = "panic" =>
              (debug_build /\ ~PredicateChecker_pred(pred.checker, pred.attrs))
        /\ pred.out = "err" <=> PredicateChecker_pred_err(pred.checker)

\* A proof for a true predicate made under a root commitment other than the
\* one the keys were generated with
C11_Witness ==
    /\ pred.out = "ok"
    /\ pred.rootcom # <<0, 1>>
    /\ PredicateChecker_pred(pred.checker, pred.attrs)
    /\ pred.proof.sat
    /\ verify_pred(gen_pred_crs(pred.checker), pred.proof, Commit(pred.attrs),
                   pred.rootcom, pred.checker) = "true"

====
